---- MODULE Spec2Model ----
(***************************************************************************)
(* Asynchronous request/response correlation of the voice front end:       *)
(*   src/responseHandler.py    the Ingress Endpoint (POST write, GET read) *)
(*                             and the Result Normalizer                   *)
(*   src/AlexaOllamaRouter.py  the Session Adapter, Dispatcher and Poller  *)
(*                                                                         *)
(* Python values are tagged records.  A string is a sequence of symbols;   *)
(* the symbol " " is whitespace.  Every kind of value has its own field    *)
(* names, so that two values of different kinds are never equal.           *)
(* A raised exception is the value Exc(e); it propagates through every     *)
(* operation applied to it until an except clause tests it.                *)
(***************************************************************************)
EXTENDS Integers, Sequences, FiniteSets, TLC

VARIABLES
    payload,      \* Normalizer harness: the payload handed to extract_ai_text
    result,       \* Normalizer harness: what extract_ai_text returned or raised
    table,        \* the DynamoDB table: a set of items
    last,         \* the last Ingress Endpoint invocation: event, store fault, outcome
    everWritten,  \* history: request ids of the POSTs answered 200 {"ok": true}
    lastOk,       \* history: request id -> raw payload of its last POST answered ok
    now,          \* wall clock, in ticks of 0.05 s
    sess          \* session -> the AskIntentHandler.handle invocation's locals

vars == <<payload, result, table, last, everWritten, lastOk, now, sess>>

(***************************************************************************)
(* Bounds                                                                  *)
(***************************************************************************)
\* longest string of the Normalizer harness
MaxLen == 2
\* longest time one read attempt (an HTTP GET) may take, in ticks
MaxFetchDur == 4

(***************************************************************************)
(* Python / JSON values                                                    *)
(***************************************************************************)
JNull == [t |-> "null"]
JStr(s) == [t |-> "str", s |-> s]
JNum(n) == [t |-> "num", n |-> n]
JBool(b) == [t |-> "bool", b |-> b]
JList(xs) == [t |-> "list", items |-> xs]
JObj(f) == [t |-> "obj", f |-> f]
Exc(e) == [t |-> "exc", e |-> e]
\* a string holding the JSON document of value v (json.dumps(v))
JsonText(v) == [t |-> "jsontext", v |-> v]

NoFields == [k \in {} |-> JNull]
EmptyObj == JObj(NoFields)

IsExc(v) == v.t = "exc"

\* bool(v)
Truthy(v) ==
    CASE v.t = "null" -> FALSE
      [] v.t = "str" -> v.s # <<>>
      [] v.t = "num" -> v.n # 0
      [] v.t = "bool" -> v.b
      [] v.t = "list" -> v.items # <<>>
      [] v.t = "obj" -> DOMAIN v.f # {}
      [] OTHER -> TRUE

\* v[k] for a string key k
GetItem(v, k) ==
    IF IsExc(v) THEN v
    ELSE IF v.t = "obj"
         THEN IF k \in DOMAIN v.f THEN v.f[k] ELSE Exc("KeyError")
         ELSE Exc("TypeError")

\* v[0]
GetIndex0(v) ==
    IF IsExc(v) THEN v
    ELSE CASE v.t = "obj" -> Exc("KeyError")
           [] v.t = "list" -> IF v.items = <<>> THEN Exc("IndexError") ELSE v.items[1]
           [] v.t = "str" -> IF v.s = <<>> THEN Exc("IndexError") ELSE JStr(<<v.s[1]>>)
           [] OTHER -> Exc("TypeError")

\* v.get(k, d)
PyGet(v, k, d) ==
    IF IsExc(v) THEN v
    ELSE IF v.t = "obj"
         THEN IF k \in DOMAIN v.f THEN v.f[k] ELSE d
         ELSE Exc("AttributeError")

\* s.lstrip(): the leading whitespace only
Strip_Left(s) ==
    LET keep == {i \in 1..Len(s) : s[i] # " "}
        lo == CHOOSE i \in keep : \A j \in keep : i <= j
    IN IF keep = {} THEN <<>> ELSE SubSeq(s, lo, Len(s))

\* s.strip() on the symbols of a string
Strip(s) ==
    LET keep == {i \in 1..Len(s) : s[i] # " "}
        lo == CHOOSE i \in keep : \A j \in keep : i <= j
        hi == CHOOSE i \in keep : \A j \in keep : j <= i
    IN IF keep = {} THEN <<>> ELSE SubSeq(s, lo, hi)

\* v.strip()
CallStrip(v) ==
    IF IsExc(v) THEN v
    ELSE IF v.t = "str" THEN JStr(Strip(v.s)) ELSE Exc("AttributeError")

(***************************************************************************)
(* Result Normalizer                                                       *)
(***************************************************************************)
\* extract_ai_text with the plain-string rule returning the string untrimmed
extract_ai_text_NoStrip(response_payload) ==
    IF response_payload.t = "null" THEN JNull
    ELSE IF response_payload.t = "str" THEN response_payload
    ELSE IF response_payload.t = "obj"
         THEN LET r == CallStrip(GetItem(GetItem(GetIndex0(GetItem(GetItem(
                           response_payload, "content"), "choices")),
                           "message"), "content"))
              IN IF ~IsExc(r) THEN r
                 ELSE IF r.e \in {"KeyError", "IndexError", "TypeError"}
                      THEN LET text == PyGet(response_payload, "text", JNull)
                           IN IF text.t = "str" THEN JStr(Strip(text.s)) ELSE JNull
                      ELSE r
         ELSE JNull

\* returns a string or JNull (None), or Exc(e) when e escapes the function
extract_ai_text(response_payload) ==
    IF response_payload.t = "null" THEN JNull
    ELSE IF response_payload.t = "str" THEN JStr(Strip(response_payload.s))
    ELSE IF response_payload.t = "obj"
         THEN LET r == CallStrip(GetItem(GetItem(GetIndex0(GetItem(GetItem(
                           response_payload, "content"), "choices")),
                           "message"), "content"))
              IN IF ~IsExc(r) THEN r
                 ELSE IF r.e \in {"KeyError", "IndexError", "TypeError"}
                      THEN LET text == PyGet(response_payload, "text", JNull)
                           IN IF text.t = "str" THEN JStr(Strip(text.s)) ELSE JNull
                      ELSE r
         ELSE JNull

(***************************************************************************)
(* Ingress Endpoint (src/responseHandler.py)                               *)
(***************************************************************************)
PlainText(msg) == [t |-> "plain", msg |-> msg]
HttpResp(status, body) == [t |-> "resp", statusCode |-> status, body |-> body]

\* json.loads(x): a str holding a JSON document parses to its value; no string
\* of the model's symbols is a JSON document; any other value is not a str
json_loads(x) ==
    IF IsExc(x) THEN x
    ELSE CASE x.t = "jsontext" -> x.v
           [] x.t = "str" -> Exc("JSONDecodeError")
           [] OTHER -> Exc("TypeError")

UpperSym(c) ==
    CASE c = "get" -> "GET"
      [] c = "post" -> "POST"
      [] c = "put" -> "PUT"
      [] OTHER -> c

\* v.upper()
CallUpper(v) ==
    IF IsExc(v) THEN v
    ELSE IF v.t = "str" THEN JStr([i \in 1..Len(v.s) |-> UpperSym(v.s[i])])
         ELSE Exc("AttributeError")

\* dynamodb.put_item: the item replaces the item of the same key.  The "ts"
\* attribute is written and never read by the program; it is left out.
put_item(tbl, request_id, ai_text) ==
    {x \in tbl : x.request_id # request_id}
        \cup {[request_id |-> request_id, response |-> ai_text]}

\* dynamodb.get_item: the items under the key (at most one)
get_item(tbl, request_id) == {x \in tbl : x.request_id = request_id}

\* put_item that adds the item without replacing the one of the same key
persist_response_Append(tbl, request_id, ai_text, fault) ==
    IF ~Truthy(request_id) \/ ~Truthy(ai_text) THEN [ok |-> FALSE, table |-> tbl]
    ELSE IF fault \/ request_id.t # "str" THEN [ok |-> FALSE, table |-> tbl]
    ELSE [ok |-> TRUE,
          table |-> tbl \cup {[request_id |-> request_id.s, response |-> ai_text.s]}]

\* fault: put_item raises ClientError/BotoCoreError.  An "S" attribute that is
\* not a str is refused by the client (ParamValidationError, a BotoCoreError).
persist_response(tbl, request_id, ai_text, fault) ==
    IF ~Truthy(request_id) \/ ~Truthy(ai_text) THEN [ok |-> FALSE, table |-> tbl]
    ELSE IF fault \/ request_id.t # "str" THEN [ok |-> FALSE, table |-> tbl]
    ELSE [ok |-> TRUE, table |-> put_item(tbl, request_id.s, ai_text.s)]

\* body.get("response") or body.get("text")
RawPayload(body) ==
    LET r == PyGet(body, "response", JNull)
    IN IF IsExc(r) THEN r
       ELSE IF Truthy(r) THEN r ELSE PyGet(body, "text", JNull)

\* the POST branch; an Exc outcome is an exception raised inside the try
HandlePost(event, tbl, fault) ==
    LET body == json_loads(PyGet(event, "body", JsonText(EmptyObj)))
        request_id == PyGet(body, "request_id", JNull)
        ai_text_raw == RawPayload(body)
        ai_text == IF IsExc(ai_text_raw) THEN ai_text_raw
                   ELSE extract_ai_text(ai_text_raw)
        p == persist_response(tbl, request_id, ai_text, fault)
    IN IF IsExc(request_id) THEN [out |-> request_id, table |-> tbl]
       ELSE IF IsExc(ai_text) THEN [out |-> ai_text, table |-> tbl]
       ELSE IF ~Truthy(request_id) \/ ~Truthy(ai_text)
            THEN [out |-> HttpResp(400, PlainText("Missing request_id or valid response text")),
                  table |-> tbl]
            ELSE [out |-> HttpResp(200, JsonText(JObj("ok" :> JBool(p.ok)))),
                  table |-> p.table]

\* the GET branch answering an absent record with 404
HandleGet_NotFound(event, tbl, fault) ==
    LET request_id == PyGet(PyGet(event, "queryStringParameters", EmptyObj),
                            "request_id", JNull)
        item == IF request_id.t = "str" THEN get_item(tbl, request_id.s) ELSE {}
    IN IF IsExc(request_id) THEN [out |-> request_id, table |-> tbl]
       ELSE IF ~Truthy(request_id)
            THEN [out |-> HttpResp(400, PlainText("Missing request_id")), table |-> tbl]
       ELSE IF fault \/ request_id.t # "str"
            THEN [out |-> HttpResp(500, PlainText("Internal server error")), table |-> tbl]
       ELSE IF item = {}
            THEN [out |-> HttpResp(404, PlainText("Not found")), table |-> tbl]
            ELSE [out |-> HttpResp(200, JsonText(JObj("response" :>
                              JStr((CHOOSE x \in item : TRUE).response)))),
                  table |-> tbl]

\* the GET branch; fault: get_item raises ClientError/BotoCoreError
HandleGet(event, tbl, fault) ==
    LET request_id == PyGet(PyGet(event, "queryStringParameters", EmptyObj),
                            "request_id", JNull)
        item == IF request_id.t = "str" THEN get_item(tbl, request_id.s) ELSE {}
    IN IF IsExc(request_id) THEN [out |-> request_id, table |-> tbl]
       ELSE IF ~Truthy(request_id)
            THEN [out |-> HttpResp(400, PlainText("Missing request_id")), table |-> tbl]
       ELSE IF fault \/ request_id.t # "str"
            THEN [out |-> HttpResp(500, PlainText("Internal server error")), table |-> tbl]
       ELSE IF item = {}
            THEN [out |-> HttpResp(200, JsonText(JObj("response" :> JNull))), table |-> tbl]
            ELSE [out |-> HttpResp(200, JsonText(JObj("response" :>
                              JStr((CHOOSE x \in item : TRUE).response)))),
                  table |-> tbl]

\* out is the returned response, or Exc(e) when e escapes the handler
lambda_handler(event, tbl, fault) ==
    LET method == PyGet(PyGet(PyGet(event, "requestContext", EmptyObj),
                              "http", EmptyObj), "method", JNull)
        upper == CallUpper(method)
        r == IF IsExc(upper) THEN [out |-> upper, table |-> tbl]
             ELSE IF upper = JStr(<<"POST">>) THEN HandlePost(event, tbl, fault)
             ELSE IF upper = JStr(<<"GET">>) THEN HandleGet(event, tbl, fault)
             ELSE [out |-> HttpResp(405, PlainText("Method not allowed")), table |-> tbl]
    IN IF IsExc(method) THEN [out |-> method, table |-> tbl]
       ELSE IF ~Truthy(method)
            THEN [out |-> HttpResp(400, PlainText("Bad request")), table |-> tbl]
       ELSE IF IsExc(r.out)
            THEN [out |-> HttpResp(500, PlainText("Internal server error")),
                  table |-> r.table]
            ELSE r

(***************************************************************************)
(* Inputs                                                                  *)
(***************************************************************************)
Chars == {"a", " "}
Strs == UNION {[1..n -> Chars] : n \in 0..MaxLen}
StrVals == {JStr(s) : s \in Strs}
Leaves == {JNull, JNum(1), JList(<<>>), EmptyObj} \cup StrVals
Wrap(k, S) == {JObj(k :> v) : v \in S}
Messages == Leaves \cup Wrap("content", Leaves)
ChoiceElems == Leaves \cup Wrap("message", Messages)
ChoicesVals == Leaves \cup {JList(<<c>>) : c \in ChoiceElems}
ContentVals == Leaves \cup Wrap("choices", ChoicesVals)
TextVals == {JNull, JNum(1)} \cup StrVals
\* the payload shapes handed to the Normalizer harness
Payloads ==
    Leaves \cup Wrap("content", ContentVals) \cup Wrap("text", TextVals)
        \cup {JObj(("content" :> c) @@ ("text" :> x)) : c \in ContentVals, x \in TextVals}

\* {"content": {"choices": [{"message": {"content": v}}]}}
Nested(v) ==
    JObj("content" :> JObj("choices" :> JList(<<JObj("message" :> JObj("content" :> v))>>)))

Rids == {<<"r1">>, <<"r2">>}

Ctx(m) == "requestContext" :> JObj("http" :> JObj("method" :> m))
\* "response" fields that are absent or falsy, and those that are truthy
FalsyResp == {NoFields, "response" :> JStr(<<>>), "response" :> EmptyObj}
TruthyResp ==
    {"response" :> v :
        v \in {JStr(<<" ">>), JStr(<<" ", "a">>), JStr(<<"b">>), Nested(JStr(<<"a", " ">>)),
               Nested(JNull), JObj("text" :> JStr(<<"b", " ">>))}}
TextFields == {"text" :> JStr(<<"a", " ">>), "text" :> JNum(1)}
PayloadFields ==
    FalsyResp \cup TruthyResp \cup {a @@ b : a \in FalsyResp, b \in TextFields}
        \cup {("response" :> JStr(<<"b">>)) @@ ("text" :> JStr(<<"a", " ">>))}
RidFields == {NoFields, "request_id" :> JStr(<<>>), "request_id" :> JStr(<<"r1">>)}
PostBodies ==
    {JObj(a @@ b) : a \in RidFields, b \in PayloadFields}
        \cup {JObj(("request_id" :> JStr(<<"r2">>)) @@ b) :
                b \in {NoFields, "response" :> JStr(<<"b">>),
                       "response" :> Nested(JStr(<<"a", " ">>))}}
        \cup {JObj(("request_id" :> JNum(1)) @@ ("response" :> JStr(<<"b">>)))}
\* POST events whose body is a JSON object
PostEvents ==
    {JObj(Ctx(JStr(<<"POST">>)) @@ ("body" :> JsonText(b))) : b \in PostBodies}
        \cup {JObj(Ctx(JStr(<<"post">>)) @@ ("body" :> JsonText(b))) :
                b \in {JObj(("request_id" :> JStr(<<"r1">>)) @@ ("response" :> JStr(<<"b">>)))}}
\* GET events carrying a request_id query parameter
GetEvent(m, rid) ==
    JObj(Ctx(JStr(<<m>>)) @@ ("queryStringParameters" :> JObj("request_id" :> JStr(rid))))
GetEvents == {GetEvent(m, r) : m \in {"GET", "get"}, r \in Rids \cup {<<>>}}
\* every other boundary input
OtherEvents ==
    {JObj(Ctx(JStr(<<"POST">>)) @@ ("body" :> b)) :
        b \in {JStr(<<"a">>), JNull, JsonText(JList(<<>>)), JsonText(JNull)}}
    \cup {JObj(Ctx(JStr(<<"POST">>)))}
    \cup {JObj(Ctx(JStr(<<"GET">>)) @@ ("queryStringParameters" :> q)) : q \in {EmptyObj, JNull}}
    \cup {JObj(Ctx(JStr(<<"GET">>)))}
    \cup {JObj(Ctx(m)) : m \in {JStr(<<"PUT">>), JStr(<<>>), JNull, JNum(1)}}
    \cup {EmptyObj, JObj("requestContext" :> JNull),
          JObj("requestContext" :> JObj("http" :> JNull))}

(***************************************************************************)
(* State                                                                   *)
(***************************************************************************)
Sessions == {1, 2}
Pending == [t |-> "pending"]
NoCall == [event |-> JNull, fault |-> FALSE, out |-> Pending]
OffSess == [pc |-> "Off"]

\* the request id and raw payload of a POST event
PostBody(event) == json_loads(PyGet(event, "body", JsonText(EmptyObj)))
IsOkTrue(out) == out = HttpResp(200, JsonText(JObj("ok" :> JBool(TRUE))))

(***************************************************************************)
(* Normalizer harness                                                      *)
(***************************************************************************)
InitNorm ==
    /\ payload \in Payloads
    /\ result = Pending
    /\ table = {}
    /\ last = NoCall
    /\ everWritten = {}
    /\ lastOk = [r \in Rids |-> JNull]
    /\ now = 0
    /\ sess = [s \in Sessions |-> OffSess]

Normalize ==
    /\ result = Pending
    /\ result' = extract_ai_text(payload)
    /\ UNCHANGED <<payload, table, last, everWritten, lastOk, now, sess>>

NextNorm == Normalize
SpecNorm == InitNorm /\ [][NextNorm]_vars

(***************************************************************************)
(* Ingress Endpoint invocations                                            *)
(***************************************************************************)
\* One invocation of lambda_handler; the history variables everWritten and
\* lastOk follow its answer.  observed: the invocation is one of the endpoint
\* harness, whose event and outcome are kept in last.
Invoke(event, fault, observed) ==
    \E r \in {lambda_handler(event, table, fault)} :
       /\ table' = r.table
       /\ last' = IF observed THEN [event |-> event, fault |-> fault, out |-> r.out]
                  ELSE last
       /\ IF IsOkTrue(r.out)
          THEN \E body \in {PostBody(event)} :
               /\ everWritten' = everWritten \cup {body.f["request_id"].s}
               /\ lastOk' = [lastOk EXCEPT ![body.f["request_id"].s] = RawPayload(body)]
          ELSE UNCHANGED <<everWritten, lastOk>>
       /\ UNCHANGED <<payload, result>>

Write == \E event \in PostEvents, fault \in BOOLEAN :
    Invoke(event, fault, TRUE) /\ UNCHANGED <<now, sess>>
Read == \E event \in GetEvents, fault \in BOOLEAN :
    Invoke(event, fault, TRUE) /\ UNCHANGED <<now, sess>>
Other == \E event \in OtherEvents :
    Invoke(event, FALSE, TRUE) /\ UNCHANGED <<now, sess>>

InitIngress ==
    /\ payload = JNull
    /\ result = Pending
    /\ table = {}
    /\ last = NoCall
    /\ everWritten = {}
    /\ lastOk = [r \in Rids |-> JNull]
    /\ now = 0
    /\ sess = [s \in Sessions |-> OffSess]

NextIngress == Write \/ Read \/ Other
SpecIngress == InitIngress /\ [][NextIngress]_vars

(***************************************************************************)
(* Session Adapter, Dispatcher and Poller (src/AlexaOllamaRouter.py)       *)
(***************************************************************************)
\* POLL_INTERVAL and TIMEOUT_SECONDS come from the environment.  In ticks of
\* 0.05 s these are an interval of 0.1 s and a session deadline of 0.3 s.
POLL_INTERVAL == 2
TIMEOUT_SECONDS == 6
\* _speech_safe's default max_len
SpeechMax == 7000

Phrase(p) == JStr(<<p>>)
SlotNames == <<"Query", "query", "Question", "question", "q", "text">>
Slot(v) == JObj("value" :> v)

\* the slots of the inbound AskIntent requests
SlotInputs ==
    {JNull, EmptyObj,
     JObj("Query" :> Slot(JStr(<<"p">>))),
     JObj(("Query" :> Slot(JNull)) @@ ("text" :> Slot(JStr(<<"q">>)))),
     JObj("query" :> Slot(JStr(<<>>))),
     JObj(("question" :> Slot(JStr(<<"p">>))) @@ ("q" :> Slot(JStr(<<"q">>)))),
     JObj("other" :> Slot(JStr(<<"p">>)))}

\* the loop over the slot names without its break: the last filled slot wins
ExtractPrompt_Last(slots) ==
    LET hit(i) == LET slot == PyGet(slots, SlotNames[i], JNull)
                  IN Truthy(slot) /\ Truthy(PyGet(slot, "value", JNull))
        hits == {i \in 1..Len(SlotNames) : hit(i)}
        final == CHOOSE i \in hits : \A j \in hits : j <= i
    IN IF ~Truthy(slots) \/ hits = {} THEN JNull
       ELSE PyGet(PyGet(slots, SlotNames[final], JNull), "value", JNull)

\* the prompt of the first slot of SlotNames that exists and has a truthy value
ExtractPrompt(slots) ==
    LET hit(i) == LET slot == PyGet(slots, SlotNames[i], JNull)
                  IN Truthy(slot) /\ Truthy(PyGet(slot, "value", JNull))
        hits == {i \in 1..Len(SlotNames) : hit(i)}
        first == CHOOSE i \in hits : \A j \in hits : i <= j
    IN IF ~Truthy(slots) \/ hits = {} THEN JNull
       ELSE PyGet(PyGet(slots, SlotNames[first], JNull), "value", JNull)

\* what send_to_ha_webhook returns (resp.status) or raises
DispatchOutcomes == {Exc("HTTPError")} \cup {JNum(n) : n \in {200, 304, 404, 500}}

\* text[:max_len].strip(): cut first, then trimmed
_speech_safe_CutFirst(text, max_len) ==
    IF ~Truthy(text) THEN JStr(<<>>)
    ELSE IF text.t # "str" THEN Exc("AttributeError")
    ELSE JStr(Strip(SubSeq(text.s, 1, IF Len(text.s) < max_len THEN Len(text.s) ELSE max_len)))

\* text.strip()[:max_len]
_speech_safe(text, max_len) ==
    IF ~Truthy(text) THEN JStr(<<>>)
    ELSE LET t == CallStrip(text)
         IN IF IsExc(t) THEN t
            ELSE JStr(SubSeq(t.s, 1, IF Len(t.s) < max_len THEN Len(t.s) ELSE max_len))

\* the HTTP exchange of one read attempt, as http.request returns or raises it:
\*   "ok"       the Ingress Endpoint's answer (502 when the handler raised)
\*   "exc"      a transport exception (connect or read timeout, DNS)
\*   "gateway"  an error status produced in front of the endpoint
\*   "garbled"  status 200 with a body that is no JSON document
\* the read path asked for one fixed key whatever the turn's identifier
HttpGet_SharedKey(net, request_id, tbl, fault) ==
    LET out == lambda_handler(GetEvent("GET", <<"r1">>), tbl, fault).out
    IN CASE net = "exc" -> Exc("HTTPError")
         [] net = "gateway" -> HttpResp(503, PlainText("Service Unavailable"))
         [] net = "garbled" -> HttpResp(200, PlainText("<html>"))
         [] OTHER -> IF IsExc(out) THEN HttpResp(502, PlainText("Internal Server Error"))
                     ELSE out

NetOutcomes == {"ok", "exc", "gateway", "garbled"}
HttpGet(net, request_id, tbl, fault) ==
    LET out == lambda_handler(GetEvent("GET", request_id), tbl, fault).out
    IN CASE net = "exc" -> Exc("HTTPError")
         [] net = "gateway" -> HttpResp(503, PlainText("Service Unavailable"))
         [] net = "garbled" -> HttpResp(200, PlainText("<html>"))
         [] OTHER -> IF IsExc(out) THEN HttpResp(502, PlainText("Internal Server Error"))
                     ELSE out

\* json.loads(resp.data.decode("utf-8")) of a response body
DecodeBody(body) ==
    IF body.t = "jsontext" THEN body.v ELSE Exc("JSONDecodeError")

\* fetch_response answering a non-200 status with the response's body
fetch_response_NoStatusCheck(resp) ==
    IF IsExc(resp) THEN JNull
    ELSE LET response_val == PyGet(DecodeBody(resp.body), "response", JNull)
         IN IF IsExc(response_val) THEN JStr(<<resp.body.msg>>) ELSE response_val

\* resp: what http.request returned or raised
fetch_response(resp) ==
    IF IsExc(resp) THEN JNull
    ELSE IF resp.statusCode # 200 THEN JNull
    ELSE LET response_val == PyGet(DecodeBody(resp.body), "response", JNull)
         IN IF IsExc(response_val) THEN JNull ELSE response_val

\* A read attempt that yields no value: a transport exception, a status other
\* than 200, or a body that is no JSON document.
FailedAttempt(resp) ==
    IsExc(resp) \/ resp.statusCode # 200 \/ resp.body.t # "jsontext"

\* The locals of one turn.  attempts, failures, started, finished and ended are
\* history: the read attempts made, those that failed, when the last one was
\* sent and returned, and when the loop was left.
NewSess ==
    [pc |-> "AwaitingPrompt", prompt |-> JNull, request_id |-> <<>>,
     status |-> Pending, deadline |-> 0, due |-> 0, ai_text |-> JNull,
     http |-> Pending, attempts |-> 0, failures |-> 0, started |-> 0,
     finished |-> 0, ended |-> 0, speak |-> JNull, should_end_session |-> JNull]

\* uuid.uuid4(): a fresh identifier for each turn
Uuid4(s) == IF s = 1 THEN <<"r1">> ELSE <<"r2">>

PollingPcs == {"PollCheck", "PollFetch", "PollSleep"}
TerminalPcs == {"Answered", "TimedOut", "DispatchFailed", "NoPromptCaptured", "Error"}

\* handle, lines 92-106: prompt extraction, then the identifier is minted and
\* the webhook call is sent
Start(s) ==
    /\ sess[s].pc = "AwaitingPrompt"
    /\ \E slots \in SlotInputs :
         \E prompt \in {ExtractPrompt(slots)} :
           sess' = [sess EXCEPT ![s] =
             IF ~Truthy(prompt)
             THEN [@ EXCEPT !.pc = "NoPromptCaptured",
                            !.speak = Phrase("I didn't catch your question. Please say it again."),
                            !.should_end_session = JBool(FALSE)]
             ELSE [@ EXCEPT !.pc = "Dispatched", !.prompt = prompt,
                            !.request_id = Uuid4(s)]]
    /\ UNCHANGED <<payload, result, table, last, everWritten, lastOk, now>>

\* handle with the error test at 500: a 4xx status is taken for a success
DispatchReturn_PollOnError(s) ==
    /\ sess[s].pc = "Dispatched"
    /\ \E status \in DispatchOutcomes :
         sess' = [sess EXCEPT ![s] =
           IF IsExc(status)
           THEN [@ EXCEPT !.pc = "DispatchFailed", !.status = status,
                          !.speak = Phrase("Sorry, I couldn't reach the AI server.")]
           ELSE IF status.n >= 500
           THEN [@ EXCEPT !.pc = "DispatchFailed", !.status = status,
                          !.speak = Phrase("The AI server returned an error. Try again later.")]
           ELSE [@ EXCEPT !.pc = "PollCheck", !.status = status,
                          !.deadline = now + TIMEOUT_SECONDS, !.ai_text = JNull]]
    /\ UNCHANGED <<payload, result, table, last, everWritten, lastOk, now>>

\* handle, lines 108-122: send_to_ha_webhook returns or raises
DispatchReturn(s) ==
    /\ sess[s].pc = "Dispatched"
    /\ \E status \in DispatchOutcomes :
         sess' = [sess EXCEPT ![s] =
           IF IsExc(status)
           THEN [@ EXCEPT !.pc = "DispatchFailed", !.status = status,
                          !.speak = Phrase("Sorry, I couldn't reach the AI server.")]
           ELSE IF status.n >= 400
           THEN [@ EXCEPT !.pc = "DispatchFailed", !.status = status,
                          !.speak = Phrase("The AI server returned an error. Try again later.")]
           ELSE [@ EXCEPT !.pc = "PollCheck", !.status = status,
                          !.deadline = now + TIMEOUT_SECONDS, !.ai_text = JNull]]
    /\ UNCHANGED <<payload, result, table, last, everWritten, lastOk, now>>

\* what follows the loop without the test of ai_text: the apology always
AfterLoop_Apology(rec) ==
    [rec EXCEPT !.pc = "TimedOut", !.ended = now,
                !.speak = Phrase("Sorry, the AI didn't respond in time.")]

\* handle, lines 130-138: what follows the loop
AfterLoop(rec) ==
    IF ~Truthy(rec.ai_text)
    THEN [rec EXCEPT !.pc = "TimedOut", !.ended = now,
                     !.speak = Phrase("Sorry, the AI didn't respond in time.")]
    ELSE LET speech == _speech_safe(rec.ai_text, SpeechMax)
         IN IF IsExc(speech)
            THEN [rec EXCEPT !.pc = "Error", !.ended = now,
                             !.speak = Phrase("Sorry, I ran into an error.")]
            ELSE [rec EXCEPT !.pc = "Answered", !.ended = now, !.speak = speech,
                             !.should_end_session = JBool(TRUE)]

\* the loop test always true: the loop ends only on a result
LoopTest_NoDeadline(rec) ==
    [rec EXCEPT !.pc = "PollFetch", !.attempts = @ + 1,
                !.started = now, !.due = now + MaxFetchDur]

\* handle, line 124: while time.time() < deadline; the read attempt is sent
LoopTest(rec) ==
    IF now < rec.deadline
    THEN [rec EXCEPT !.pc = "PollFetch", !.attempts = @ + 1,
                     !.started = now, !.due = now + MaxFetchDur]
    ELSE AfterLoop(rec)

PollCheck(s) ==
    /\ sess[s].pc = "PollCheck"
    /\ sess' = [sess EXCEPT ![s] = LoopTest(@)]
    /\ UNCHANGED <<payload, result, table, last, everWritten, lastOk, now>>

\* time.sleep given the interval in the wrong unit
SleepUntil_Short(t) == t + 1

\* time.sleep(POLL_INTERVAL) started at t returns at
SleepUntil(t) == t + POLL_INTERVAL

\* the loop body without its break
LoopBody_NoBreak(rec, ai_text, resp) ==
    [rec EXCEPT !.ai_text = ai_text, !.http = resp, !.finished = now,
                !.failures = IF FailedAttempt(resp) THEN @ + 1 ELSE @,
                !.pc = "PollSleep", !.due = SleepUntil(now)]

\* handle, lines 125-128: the read attempt returned ai_text
LoopBody(rec, ai_text, resp) ==
    LET r == [rec EXCEPT !.ai_text = ai_text, !.http = resp, !.finished = now,
                         !.failures = IF FailedAttempt(resp) THEN @ + 1 ELSE @]
    IN IF Truthy(ai_text) THEN AfterLoop(r)
       ELSE [r EXCEPT !.pc = "PollSleep", !.due = SleepUntil(now)]

\* fetch_response returns: the GET reaches the endpoint and reads the table
FetchReturn(s) ==
    /\ sess[s].pc = "PollFetch"
    /\ \E net \in NetOutcomes, fault \in BOOLEAN :
         \E resp \in {HttpGet(net, sess[s].request_id, table, fault)} :
           sess' = [sess EXCEPT ![s] = LoopBody(@, fetch_response(resp), resp)]
    /\ UNCHANGED <<payload, result, table, last, everWritten, lastOk, now>>

\* time.sleep returns
SleepDone(s) ==
    /\ sess[s].pc = "PollSleep"
    /\ now >= sess[s].due
    /\ sess' = [sess EXCEPT ![s].pc = "PollCheck"]
    /\ UNCHANGED <<payload, result, table, last, everWritten, lastOk, now>>

\* The clock advances while some session waits for a response or sleeps.  A
\* read attempt lasts at most MaxFetchDur, a sleep exactly its interval, and
\* the statements between them take no time.
Tick ==
    /\ \E s \in Sessions : sess[s].pc \in {"PollFetch", "PollSleep"}
    /\ \A s \in Sessions :
         /\ sess[s].pc # "PollCheck"
         /\ sess[s].pc \in {"PollFetch", "PollSleep"} => now < sess[s].due
    /\ now' = now + 1
    /\ UNCHANGED <<payload, result, table, last, everWritten, lastOk, sess>>

\* the worker's POSTs of results, at any time
WorkerEvents ==
    {JObj(Ctx(JStr(<<"POST">>)) @@ ("body" :> JsonText(JObj(
            ("request_id" :> JStr(r)) @@ ("response" :> v))))) :
        r \in Rids, v \in {JStr(<<" ", "a">>), JStr(<<"b">>)}}
WorkerWrite == \E event \in WorkerEvents, fault \in BOOLEAN :
    Invoke(event, fault, FALSE) /\ UNCHANGED <<now, sess>>

Init ==
    /\ payload = JNull
    /\ result = Pending
    /\ table = {}
    /\ last = NoCall
    /\ everWritten = {}
    /\ lastOk = [r \in Rids |-> JNull]
    /\ now = 0
    /\ sess = [s \in Sessions |-> IF s = 1 THEN NewSess ELSE OffSess]

SessStep(s) ==
    Start(s) \/ DispatchReturn(s) \/ PollCheck(s) \/ FetchReturn(s) \/ SleepDone(s)

Next == (\E s \in Sessions : SessStep(s)) \/ Tick \/ WorkerWrite

Spec == Init /\ [][Next]_vars

(***************************************************************************)
(* Two concurrent turns                                                    *)
(***************************************************************************)
\* Both turns are live and their steps, the workers' Writes and the clock
\* interleave in every order.  The inputs are drawn from smaller sets than in
\* Spec: one prompt or none, a dispatch answered 200 or raising, read attempts
\* that return at once with the endpoint's answer to a reachable or failing
\* store or raise, and one text per identifier.
TwoRecords ==
    {[request_id |-> <<"r1">>, response |-> <<"a">>],
     [request_id |-> <<"r2">>, response |-> <<"b">>]}
TwoInputs(rec) ==
    /\ rec.prompt \in {JNull, JStr(<<"p">>)}
    /\ rec.status \in {Pending, JNum(200), Exc("HTTPError")}
    /\ rec.http # Pending
          => \/ IsExc(rec.http)
             \/ rec.http.statusCode \in {200, 500} /\ rec.http.body.t \in {"jsontext", "plain"}
    /\ rec.http # Pending /\ ~IsExc(rec.http) /\ rec.http.statusCode = 200
          => rec.http.body.t = "jsontext"
    /\ rec.pc # "PollFetch" => rec.finished = rec.started

InitTwo ==
    /\ payload = JNull
    /\ result = Pending
    /\ table = {}
    /\ last = NoCall
    /\ everWritten = {}
    /\ lastOk = [r \in Rids |-> JNull]
    /\ now = 0
    /\ sess = [s \in Sessions |-> NewSess]

TurnStep == \E s \in Sessions : SessStep(s) /\ TwoInputs(sess'[s])
WorkerWriteTwo == WorkerWrite /\ table' \subseteq TwoRecords
NextTwo == TurnStep \/ Tick \/ WorkerWriteTwo
SpecTwo == InitTwo /\ [][NextTwo]_vars

(***************************************************************************)
(* Speech harness: _speech_safe on the polled results                      *)
(***************************************************************************)
MaxShort == 6
MaxPad == 1
\* n symbols between a leading and b trailing blanks
Padded(n, a, b) == [i \in 1..(a + n + b) |-> IF i <= a \/ i > a + n THEN " " ELSE "a"]
\* the polled results handed to _speech_safe: every short string, and long
\* ones around the cut and at 8000 characters
LongLens == {SpeechMax - 1, SpeechMax, SpeechMax + 1, 8000}
SpeechInputs ==
    {JNull} \cup {JStr(s) : s \in UNION {[1..n -> Chars] : n \in 0..MaxShort}}
            \cup {JStr(Padded(n, a, a)) : n \in LongLens, a \in 0..MaxPad}

InitSpeech ==
    /\ payload \in SpeechInputs
    /\ result = Pending
    /\ table = {}
    /\ last = NoCall
    /\ everWritten = {}
    /\ lastOk = [r \in Rids |-> JNull]
    /\ now = 0
    /\ sess = [s \in Sessions |-> OffSess]

\* handle, line 137: _speech_safe(ai_text)
Speak ==
    /\ result = Pending
    /\ result' = _speech_safe(payload, SpeechMax)
    /\ UNCHANGED <<payload, table, last, everWritten, lastOk, now, sess>>

NextSpeech == Speak
SpecSpeech == InitSpeech /\ [][NextSpeech]_vars

(***************************************************************************)
(* Reference definitions used by the properties                            *)
(***************************************************************************)
RECURSIVE TrimLeft(_)
TrimLeft(s) == IF s # <<>> /\ Head(s) = " " THEN TrimLeft(Tail(s)) ELSE s
RECURSIVE TrimRight(_)
TrimRight(s) ==
    IF s # <<>> /\ s[Len(s)] = " " THEN TrimRight(SubSeq(s, 1, Len(s) - 1)) ELSE s
Trim(s) == TrimRight(TrimLeft(s))

\* p is a mapping with a string at content.choices[0].message.content
HasPathString(p) ==
    /\ p.t = "obj" /\ "content" \in DOMAIN p.f
    /\ p.f["content"].t = "obj" /\ "choices" \in DOMAIN p.f["content"].f
    /\ p.f["content"].f["choices"].t = "list"
    /\ p.f["content"].f["choices"].items # <<>>
    /\ p.f["content"].f["choices"].items[1].t = "obj"
    /\ "message" \in DOMAIN p.f["content"].f["choices"].items[1].f
    /\ p.f["content"].f["choices"].items[1].f["message"].t = "obj"
    /\ "content" \in DOMAIN p.f["content"].f["choices"].items[1].f["message"].f
    /\ p.f["content"].f["choices"].items[1].f["message"].f["content"].t = "str"
PathString(p) == p.f["content"].f["choices"].items[1].f["message"].f["content"].s
HasTextString(p) == p.t = "obj" /\ "text" \in DOMAIN p.f /\ p.f["text"].t = "str"

\* the rule list of the Result Normalizer, in its fixed priority
RefNormalize(p) ==
    IF p.t = "str" THEN JStr(Trim(p.s))
    ELSE IF HasPathString(p) THEN JStr(Trim(PathString(p)))
    ELSE IF HasTextString(p) THEN JStr(Trim(p.f["text"].s))
    ELSE JNull

LastIsPost == last.event \in PostEvents
LastIsGet == last.event \in GetEvents
LastReadRid == last.event.f["queryStringParameters"].f["request_id"].s
LastBody == PostBody(last.event)
NullRead == HttpResp(200, JsonText(JObj("response" :> JNull)))
TextRead(v) == HttpResp(200, JsonText(JObj("response" :> v)))
\* what a Read of rid answers from table tbl with the store reachable
ReadOf(tbl, rid) == lambda_handler(GetEvent("GET", rid), tbl, FALSE).out

(***************************************************************************)
(* C1: a GET Read, with the store reachable, of a request identifier that  *)
(* was never successfully written answers 200 {"response": null}, whatever *)
(* Writes and Reads of other identifiers came before.                      *)
(***************************************************************************)
C1_ReadOfUnwritten ==
    (LastIsGet /\ ~last.fault /\ LastReadRid \in Rids \ everWritten)
        => last.out = NullRead

C1_Witness ==
    /\ LastIsGet /\ ~last.fault
    /\ LastReadRid \in Rids \ everWritten
    /\ everWritten # {}

(***************************************************************************)
(* C2: a POST Write whose request_id is missing or empty, or whose raw     *)
(* payload normalizes to absent, answers 400 and leaves the store as it    *)
(* was: the table is unchanged and every Read answers what it answered     *)
(* before.                                                                 *)
(***************************************************************************)
RidMissing(body) == "request_id" \notin DOMAIN body.f \/ ~Truthy(body.f["request_id"])
C2_Rejected(event) ==
    /\ event \in PostEvents
    /\ \/ RidMissing(PostBody(event))
       \/ extract_ai_text(RawPayload(PostBody(event))) = JNull

C2_BadWriteRejected ==
    [][C2_Rejected(last'.event)
         => /\ last'.out.t = "resp" /\ last'.out.statusCode = 400
            /\ table' = table
            /\ \A rid \in Rids : ReadOf(table', rid) = ReadOf(table, rid)]_vars

(***************************************************************************)
(* C3: a POST Write with a valid request_id and a payload that normalizes  *)
(* to text, whose store put fails, is answered with status 500.            *)
(***************************************************************************)
C3_ValidWrite(event) ==
    /\ event \in PostEvents
    /\ ~RidMissing(PostBody(event))
    /\ PostBody(event).f["request_id"].t = "str"
    /\ extract_ai_text(RawPayload(PostBody(event))).t = "str"
    /\ Truthy(extract_ai_text(RawPayload(PostBody(event))))

C3_StoreFailureIs500 ==
    (C3_ValidWrite(last.event) /\ last.fault)
        => (last.out.t = "resp" /\ last.out.statusCode = 500)

(***************************************************************************)
(* C4: after a POST Write of raw payload p for identifier i was answered   *)
(* 200 {"ok": true}, every GET Read of i with the store reachable, with no *)
(* later successful Write of i, answers 200 with the text the rule list    *)
(* extracts from p, trimmed.                                               *)
(***************************************************************************)
C4_RoundTrip ==
    (LastIsGet /\ ~last.fault /\ LastReadRid \in Rids /\ lastOk[LastReadRid] # JNull)
        => last.out = TextRead(RefNormalize(lastOk[LastReadRid]))

C4_Witness ==
    /\ LastIsGet /\ ~last.fault /\ LastReadRid \in Rids
    /\ lastOk[LastReadRid] = Nested(JStr(<<"a", " ">>))
    /\ last.out = TextRead(JStr(<<"a">>))

(***************************************************************************)
(* C5: extract_ai_text raises for no payload shape; it returns a text or   *)
(* absent.                                                                 *)
(***************************************************************************)
C5_NeverRaises == result # Pending => result.t \in {"str", "null"}

(***************************************************************************)
(* C6: extract_ai_text equals the rule list applied in its fixed priority: *)
(* a plain string trimmed; else the string at                              *)
(* content.choices[0].message.content trimmed; else the string under       *)
(* "text" trimmed; else absent.                                            *)
(***************************************************************************)
C6_RuleList == result # Pending => result = RefNormalize(payload)

(***************************************************************************)
(* C7: the polling loop always ends, and it ends in one of two ways: a     *)
(* read attempt returned a non-empty result, which stops the loop at once  *)
(* and is the outcome, or the clock reached the deadline with no non-empty *)
(* result, and the outcome is absent.  It does not end otherwise.          *)
(* Termination is stated by a variant: while the loop runs, a step of the  *)
(* handler or of the clock is enabled, and every step of the session or of *)
(* the clock that leaves it in the loop decreases a rank that never falls  *)
(* below zero.                                                             *)
(***************************************************************************)
InLoop(s) == sess[s].pc \in PollingPcs
C7_Rank(s) ==
    4 * (sess[s].deadline + MaxFetchDur + POLL_INTERVAL - now)
      + (CASE sess[s].pc = "PollSleep" /\ now >= sess[s].due -> 3
           [] sess[s].pc = "PollCheck" -> 2
           [] sess[s].pc = "PollFetch" -> 1
           [] OTHER -> 0)
C7_CanStep(s) ==
    InLoop(s) => /\ C7_Rank(s) >= 0
                 /\ \/ ENABLED Tick
                    \/ ENABLED SessStep(s)
                    \/ \E t \in Sessions \ {s} : ENABLED SessStep(t)
C7_RankDecreases(s) ==
    (InLoop(s) /\ InLoop(s)' /\ (sess'[s] # sess[s] \/ now' # now))
        => C7_Rank(s)' < C7_Rank(s)
C7_EndsOnlyOnResultOrDeadline(s) ==
    (InLoop(s) /\ ~InLoop(s)')
        => \/ /\ sess'[s].pc = "Answered"
              /\ sess[s].pc = "PollFetch"
              /\ Truthy(sess'[s].ai_text)
              /\ sess'[s].ai_text = sess'[s].http.body.v.f["response"]
           \/ /\ sess'[s].pc = "TimedOut"
              /\ now >= sess[s].deadline
              /\ ~Truthy(sess'[s].ai_text)
C7_PollingTerminates ==
    /\ [](\A s \in Sessions : C7_CanStep(s))
    /\ [][\A s \in Sessions : C7_RankDecreases(s)]_vars
    /\ [][\A s \in Sessions : C7_EndsOnlyOnResultOrDeadline(s)]_vars

C7_Witness ==
    /\ sess[1].pc = "TimedOut"
    /\ sess[1].attempts = 3
    /\ table # {}

(***************************************************************************)
(* C8: a failed read attempt (transport exception, status other than 200,  *)
(* undecodable body) yields no result and does not end the loop or the     *)
(* turn: the session sleeps one interval and, the deadline not reached,    *)
(* makes a further attempt.  Answered stays reachable after failures.      *)
(***************************************************************************)
C8_Step(s) ==
    /\ (sess[s].pc = "PollFetch" /\ sess'[s].pc # "PollFetch" /\ FailedAttempt(sess'[s].http))
          => /\ sess'[s].ai_text = JNull
             /\ sess'[s].pc = "PollSleep"
             /\ sess'[s].due = now + POLL_INTERVAL
    /\ (sess[s].pc = "PollSleep" /\ sess'[s].pc # "PollSleep")
          => sess'[s].pc = "PollCheck" /\ now = sess[s].due
    /\ (sess[s].pc = "PollCheck" /\ sess'[s] # sess[s] /\ now < sess[s].deadline)
          => sess'[s].pc = "PollFetch" /\ sess'[s].attempts = sess[s].attempts + 1
C8_FailedAttemptAbsorbed == [][\A s \in Sessions : C8_Step(s)]_vars

C8_Witness ==
    /\ sess[1].pc = "Answered"
    /\ sess[1].failures = 2
    /\ sess[1].attempts = 3

(***************************************************************************)
(* C9: with interval 0.1 s and deadline 0.3 s, against a store never       *)
(* written for the identifier, the poller returns absent after at least 2  *)
(* and at most 4 read attempts, no later than one interval after the       *)
(* deadline.                                                               *)
(***************************************************************************)
C9_Case(s) ==
    /\ sess[s].pc \in {"Answered", "TimedOut", "Error"}
    /\ sess[s].request_id \notin everWritten
C9_PollerBounds ==
    \A s \in Sessions :
        C9_Case(s) => /\ sess[s].pc = "TimedOut"
                      /\ sess[s].attempts >= 2 /\ sess[s].attempts <= 4
                      /\ sess[s].ended <= sess[s].deadline + POLL_INTERVAL

\* C9 as amended: at least 1 and at most 4 read attempts, and the return is no
\* later than one interval plus the duration of the last read attempt after
\* the deadline.
C9_PollerBoundsAmended ==
    \A s \in Sessions :
        C9_Case(s) => /\ sess[s].pc = "TimedOut"
                      /\ sess[s].ai_text = JNull
                      /\ sess[s].attempts >= 1 /\ sess[s].attempts <= 4
                      /\ sess[s].ended <= sess[s].deadline + POLL_INTERVAL
                                            + (sess[s].finished - sess[s].started)

C9_Witness ==
    /\ sess[1].pc = "TimedOut"
    /\ sess[1].request_id \notin everWritten
    /\ everWritten # {}
    /\ sess[1].ended > sess[1].deadline + POLL_INTERVAL

(***************************************************************************)
(* C10: once a successful Write for the session's identifier lands between *)
(* two read attempts, the very next read attempt returns the stored text   *)
(* and the poller stops there: no further read attempt, no wait for the    *)
(* deadline, and the value stays the first one observed whatever is        *)
(* written later.                                                          *)
(***************************************************************************)
Stored(rid) == JStr((CHOOSE x \in get_item(table, rid) : TRUE).response)
\* the read attempt of s returns in this step
ReadReturns(s) == sess[s].pc = "PollFetch" /\ sess'[s].pc # "PollFetch"
\* every earlier read attempt of s found no record, and there is one now
LandedSinceLastRead(s) ==
    /\ sess[s].attempts >= 2
    /\ sess[s].failures = 0
    /\ get_item(table, sess[s].request_id) # {}
C10_Stops(s) ==
    sess[s].pc = "Answered" => sess'[s] = sess[s]
C10_NextReadReturns ==
    [][\A s \in Sessions :
         /\ (ReadReturns(s) /\ LandedSinceLastRead(s))
               => /\ sess'[s].pc = "Answered"
                  /\ sess'[s].ai_text = Stored(sess[s].request_id)
         /\ C10_Stops(s)]_vars

\* C10 as amended: the very next read attempt, unless it is itself a failed
\* attempt, returns the stored text and the poller stops there.
C10_NextGoodReadReturns ==
    [][\A s \in Sessions :
         /\ (ReadReturns(s) /\ LandedSinceLastRead(s) /\ ~FailedAttempt(sess'[s].http))
               => /\ sess'[s].pc = "Answered"
                  /\ sess'[s].ai_text = Stored(sess[s].request_id)
         /\ C10_Stops(s)]_vars

C10_Witness ==
    /\ sess[1].pc = "Answered"
    /\ sess[1].attempts = 2 /\ sess[1].failures = 0
    /\ sess[1].ended < sess[1].deadline
    /\ get_item(table, sess[1].request_id) # {}
    /\ Stored(sess[1].request_id) # sess[1].ai_text


(***************************************************************************)
(* C11: when send_to_ha_webhook raises or returns a status >= 400 the turn *)
(* is in DispatchFailed: a fixed apology is spoken, no read attempt is     *)
(* made, and nothing follows.  The webhook call is sent once per turn, on  *)
(* leaving AwaitingPrompt with a captured prompt, and never again.         *)
(***************************************************************************)
Turns == {s \in Sessions : sess[s].pc # "Off"}
DispatchDone(s) == sess[s].status # Pending
DispatchRejected(s) ==
    DispatchDone(s) /\ (IsExc(sess[s].status) \/ sess[s].status.n >= 400)
C11_State(s) ==
    /\ DispatchRejected(s)
          => /\ sess[s].pc = "DispatchFailed"
             /\ sess[s].speak =
                  IF IsExc(sess[s].status)
                  THEN Phrase("Sorry, I couldn't reach the AI server.")
                  ELSE Phrase("The AI server returned an error. Try again later.")
             /\ sess[s].attempts = 0
             /\ sess[s].http = Pending
    /\ sess[s].pc = "DispatchFailed" => DispatchRejected(s)
C11_Step(s) ==
    /\ sess[s].pc = "DispatchFailed" => sess'[s] = sess[s]
    /\ (sess'[s].pc = "Dispatched" /\ sess[s].pc # "Dispatched")
          => sess[s].pc = "AwaitingPrompt" /\ Truthy(sess'[s].prompt)
    /\ sess[s].pc # "AwaitingPrompt" => sess'[s].pc # "AwaitingPrompt"
    /\ DispatchDone(s) => sess'[s].status = sess[s].status
C11_DispatchFailure ==
    /\ [](\A s \in Turns : C11_State(s))
    /\ [][\A s \in Turns : C11_Step(s)]_vars

C11_Witness ==
    /\ sess[1].pc = "DispatchFailed"
    /\ IsExc(sess[1].status)
    /\ sess[1].attempts = 0
    /\ table # {}

(***************************************************************************)
(* C12: the dispatch succeeds only on a status in 200..299; with any other *)
(* status the turn is in DispatchFailed and never polls.                   *)
(***************************************************************************)
Is2xx(status) == ~IsExc(status) /\ status.n >= 200 /\ status.n <= 299
C12_Only2xxSucceeds ==
    \A s \in Turns :
        (DispatchDone(s) /\ ~Is2xx(sess[s].status))
            => /\ sess[s].pc = "DispatchFailed"
               /\ sess[s].attempts = 0

(***************************************************************************)
(* C13: when the dispatch succeeded with status 200 and the worker's write *)
(* for the turn's identifier has landed before the deadline, with every    *)
(* read attempt succeeding, the session observes the response within the   *)
(* deadline, reaches Answered and speaks exactly the trimmed stored text.  *)
(* On a path to Answered a further read attempt must follow the write: a   *)
(* sleep entered with the record in the store ends before the deadline.    *)
(***************************************************************************)
HasRecord(s) == get_item(table, sess[s].request_id) # {}
C13_Pre(s) ==
    /\ sess[s].status = JNum(200)
    /\ sess[s].failures = 0
    /\ HasRecord(s)
C13_ObservedWithinDeadline ==
    \A s \in Turns :
       /\ (C13_Pre(s) /\ sess[s].pc = "PollSleep" /\ now < sess[s].deadline)
             => sess[s].due < sess[s].deadline
       /\ (C13_Pre(s) /\ sess[s].pc = "Answered")
             => /\ sess[s].ended <= sess[s].deadline
                /\ sess[s].speak = JStr(Trim(sess[s].ai_text.s))

\* C13 as amended: a read attempt that succeeds and returns with the record
\* in the store ends the loop in Answered with the trimmed stored text
\* spoken; that attempt was sent before the deadline.  A turn whose read
\* attempts all succeeded times out only if its last one found no record.
\* The loop ends (the variant of C7).
C13_ReadStep(s) ==
    (ReadReturns(s) /\ HasRecord(s) /\ ~FailedAttempt(sess'[s].http))
        => /\ sess'[s].pc = "Answered"
           /\ sess'[s].ai_text = Stored(sess[s].request_id)
           /\ sess'[s].speak = JStr(Trim(Stored(sess[s].request_id).s))
           /\ sess'[s].ended = now
           /\ sess[s].started < sess[s].deadline
C13_TimedOutState(s) ==
    (sess[s].pc = "TimedOut" /\ sess[s].failures = 0)
        => sess[s].attempts >= 1 /\ sess[s].http = NullRead
C13_ObservedByNextRead ==
    /\ [][\A s \in Turns : C13_ReadStep(s)]_vars
    /\ [](\A s \in Turns : C13_TimedOutState(s) /\ C7_CanStep(s))
    /\ [][\A s \in Turns : C7_RankDecreases(s)]_vars

C13_Witness ==
    /\ sess[1].pc = "Answered"
    /\ sess[1].status = JNum(200)
    /\ sess[1].attempts = 3 /\ sess[1].failures = 0
    /\ sess[1].speak = JStr(<<"a">>)
    /\ sess[1].ended > sess[1].deadline

(***************************************************************************)
(* C14: the spoken text is the polled result trimmed of surrounding        *)
(* whitespace and then cut to its first 7000 characters: its length is     *)
(* min(7000, length of the trimmed result); an 8000-character result is    *)
(* spoken as exactly 7000 characters, one of at most 7000 unchanged.       *)
(***************************************************************************)
Min(a, b) == IF a < b THEN a ELSE b
C14_Trimmed == IF payload.t = "str" THEN Trim(payload.s) ELSE <<>>
C14_SpokenLength ==
    result # Pending
        => /\ result.t = "str"
           /\ Len(result.s) = Min(7000, Len(C14_Trimmed))
           /\ result.s = SubSeq(C14_Trimmed, 1, Len(result.s))
           /\ Len(C14_Trimmed) <= 7000 => result.s = C14_Trimmed

C14_Witness ==
    /\ result # Pending
    /\ payload.t = "str"
    /\ Len(payload.s) > 8000
    /\ Len(C14_Trimmed) = 8000
    /\ Len(result.s) = 7000

(***************************************************************************)
(* C15: a boundary input that is neither a well-formed Write nor a         *)
(* well-formed Read is answered 400 or 405 and leaves the store untouched: *)
(* an unsupported verb gives 405, and a POST whose body is no JSON         *)
(* document (or is null) gives a 4xx status, not 500.                      *)
(***************************************************************************)
Method(event) ==
    PyGet(PyGet(PyGet(event, "requestContext", EmptyObj), "http", EmptyObj),
          "method", JNull)
IsVerb(event, S) == Method(event).t = "str" /\ Method(event).s \in S
C15_Answer(event, out) ==
    /\ out.t = "resp"
    /\ out.statusCode \in {400, 405}
    /\ IsVerb(event, {<<"PUT">>}) => out.statusCode = 405
    /\ IsVerb(event, {<<"POST">>, <<"GET">>}) => out.statusCode = 400
C15_MalformedRejected ==
    [][(last' # last /\ last'.event \in OtherEvents)
          => C15_Answer(last'.event, last'.out) /\ table' = table]_vars

(***************************************************************************)
(* C16: no fault escapes.  For every inbound event, including one whose    *)
(* requestContext, http or queryStringParameters is null or of the wrong   *)
(* type, and every store failure, lambda_handler returns a response with   *)
(* status 200, 400, 405 or 500 and never raises; every voice turn that has *)
(* ended has a spoken response.                                            *)
(***************************************************************************)
C16_NoFaultEscapes ==
    /\ last # NoCall
          => /\ last.out.t = "resp"
             /\ last.out.statusCode \in {200, 400, 405, 500}
    /\ \A s \in Turns : sess[s].pc \in TerminalPcs => sess[s].speak.t = "str"

(***************************************************************************)
(* C17: a turn follows AwaitingPrompt -> Dispatched -> Polling -> terminal *)
(* and ends in one of Answered, TimedOut, DispatchFailed and               *)
(* NoPromptCaptured.  Polling is entered only after a dispatch that        *)
(* succeeded, Answered and TimedOut only from Polling, Answered only after *)
(* a read attempt returned a non-empty result, TimedOut only when no read  *)
(* attempt returned one, and the session is ended in Answered and in       *)
(* TimedOut.                                                               *)
(***************************************************************************)
C17_Successors(pc) ==
    CASE pc = "AwaitingPrompt" -> {"Dispatched", "NoPromptCaptured"}
      [] pc = "Dispatched" -> {"PollCheck", "DispatchFailed"}
      [] pc \in PollingPcs -> PollingPcs \cup {"Answered", "TimedOut"}
      [] OTHER -> {}
C17_Step(s) ==
    sess'[s] # sess[s]
        => /\ sess'[s].pc \in C17_Successors(sess[s].pc)
           /\ (sess[s].pc = "Dispatched" /\ sess'[s].pc = "PollCheck")
                 => ~IsExc(sess'[s].status) /\ sess'[s].status.n < 400
           /\ sess'[s].pc = "Answered"
                 => /\ sess[s].pc = "PollFetch"
                    /\ Truthy(fetch_response(sess'[s].http))
                    /\ sess'[s].ai_text = fetch_response(sess'[s].http)
           /\ (sess[s].pc \in PollingPcs /\ Truthy(sess'[s].ai_text))
                 => sess'[s].pc = "Answered"
C17_State(s) ==
    /\ sess[s].pc \in {"AwaitingPrompt", "Dispatched", "Answered", "TimedOut",
                       "DispatchFailed", "NoPromptCaptured"} \cup PollingPcs
    /\ sess[s].pc = "TimedOut" => ~Truthy(sess[s].ai_text)
C17_Ended(s) ==
    sess[s].pc \in {"Answered", "TimedOut"} => sess[s].should_end_session = JBool(TRUE)
C17_TurnStateMachine ==
    /\ [](\A s \in Turns : C17_State(s) /\ C17_Ended(s))
    /\ [][\A s \in Turns : C17_Step(s)]_vars

(***************************************************************************)
(* C18: the prompt is the value of the first slot, in the order Query,     *)
(* query, Question, question, q, text, that exists and has a non-empty     *)
(* value; later slots are ignored.  With no such slot, or no slots, the    *)
(* turn ends in NoPromptCaptured: the user is asked to repeat, no request  *)
(* identifier is minted, no dispatch is sent and no read attempt is made.  *)
(***************************************************************************)
SlotFilled(slots, name) ==
    /\ slots.t = "obj"
    /\ name \in DOMAIN slots.f
    /\ slots.f[name].t = "obj"
    /\ "value" \in DOMAIN slots.f[name].f
    /\ slots.f[name].f["value"].t = "str"
    /\ slots.f[name].f["value"].s # <<>>
RECURSIVE FirstFilled(_, _)
FirstFilled(slots, names) ==
    IF names = <<>> THEN JNull
    ELSE IF SlotFilled(slots, Head(names)) THEN slots.f[Head(names)].f["value"]
    ELSE FirstFilled(slots, Tail(names))
C18_Order == <<"Query", "query", "Question", "question", "q", "text">>
C18_Prompts == {FirstFilled(slots, C18_Order) : slots \in SlotInputs}
C18_NoPrompt(rec) ==
    /\ rec.speak = Phrase("I didn't catch your question. Please say it again.")
    /\ rec.should_end_session = JBool(FALSE)
    /\ rec.prompt = JNull
    /\ rec.request_id = <<>>
    /\ rec.status = Pending
    /\ rec.attempts = 0 /\ rec.http = Pending
C18_Step(s) ==
    /\ (sess[s].pc = "AwaitingPrompt" /\ sess'[s] # sess[s])
          => \E p \in C18_Prompts :
               IF p = JNull
               THEN sess'[s].pc = "NoPromptCaptured" /\ C18_NoPrompt(sess'[s])
               ELSE /\ sess'[s].pc = "Dispatched"
                    /\ sess'[s].prompt = p
                    /\ sess'[s].request_id # <<>>
    /\ sess[s].pc = "NoPromptCaptured" => sess'[s] = sess[s]
C18_FirstFilledSlotWins ==
    /\ [](\A slots \in SlotInputs : ExtractPrompt(slots) = FirstFilled(slots, C18_Order))
    /\ [][\A s \in Turns : C18_Step(s)]_vars

C18_Witness ==
    /\ sess[1].pc = "NoPromptCaptured"
    /\ C18_NoPrompt(sess[1])
    /\ JNull \in C18_Prompts
    /\ JStr(<<"q">>) \in C18_Prompts

(***************************************************************************)
(* C19: last writer wins.  After any sequence of Writes the store holds at *)
(* most one record for an identifier and a Read of it returns the          *)
(* normalized text of the most recent successful Write; a Write that was   *)
(* rejected or failed changes nothing of what a Read returns.              *)
(***************************************************************************)
C19_State(rid) ==
    /\ Cardinality(get_item(table, rid)) <= 1
    /\ ReadOf(table, rid) = IF lastOk[rid] = JNull THEN NullRead
                            ELSE TextRead(RefNormalize(lastOk[rid]))
C19_UnsuccessfulWrite ==
    (last' # last /\ last'.event \in PostEvents /\ ~IsOkTrue(last'.out))
        => /\ table' = table
           /\ \A rid \in Rids : ReadOf(table', rid) = ReadOf(table, rid)
C19_LastWriterWins ==
    /\ [](\A rid \in Rids : C19_State(rid))
    /\ [][C19_UnsuccessfulWrite]_vars

C19_Witness ==
    /\ LastIsPost /\ last.fault
    /\ PyGet(LastBody, "request_id", JNull) = JStr(<<"r1">>)
    /\ lastOk[<<"r1">>] = Nested(JStr(<<"a", " ">>))
    /\ RawPayload(LastBody) = JStr(<<"b">>)
    /\ ReadOf(table, <<"r1">>) = TextRead(JStr(<<"a">>))

(***************************************************************************)
(* C20: concurrent turns are independent.  Under every interleaving of two *)
(* sessions with distinct identifiers and their workers' Writes, a read    *)
(* attempt of a session returns the record keyed by its own identifier or  *)
(* nothing, the text spoken in Answered is a text written for its own      *)
(* identifier, and a Write for another identifier changes neither the      *)
(* session nor what its reads return.                                      *)
(***************************************************************************)
OwnTexts(rid, tbl) == {JStr(x.response) : x \in {y \in tbl : y.request_id = rid}}
Changed == {rid \in Rids : get_item(table', rid) # get_item(table, rid)}
C20_ReadStep(s) ==
    ReadReturns(s)
        => /\ sess'[s].ai_text \in {JNull} \cup OwnTexts(sess[s].request_id, table)
           /\ (get_item(table, sess[s].request_id) = {}) => sess'[s].ai_text = JNull
C20_WriteStep(s) ==
    table' # table
        => /\ Cardinality(Changed) = 1
           /\ sess'[s] = sess[s]
           /\ sess[s].request_id \notin Changed
                 => ReadOf(table', sess[s].request_id) = ReadOf(table, sess[s].request_id)
C20_State(s) ==
    /\ sess[s].pc = "Answered"
          => /\ sess[s].request_id \in everWritten
             /\ sess[s].speak \in OwnTexts(sess[s].request_id, TwoRecords)
    /\ \A t \in Turns \ {s} :
          sess[s].request_id # <<>> => sess[t].request_id # sess[s].request_id
C20_TurnsIndependent ==
    /\ [](\A s \in Turns : C20_State(s))
    /\ [][\A s \in Turns : C20_ReadStep(s) /\ C20_WriteStep(s)]_vars

C20_Witness ==
    /\ sess[1].pc = "Answered" /\ sess[1].speak = JStr(<<"a">>)
    /\ sess[2].pc = "Answered" /\ sess[2].speak = JStr(<<"b">>)
    /\ sess[1].attempts = 2 /\ sess[2].attempts = 2
    /\ sess[2].deadline = sess[1].deadline + 1

(***************************************************************************)
(* C21: in every reachable state every record of the store has a non-empty *)
(* request identifier and a non-empty text with no leading or trailing     *)
(* whitespace; a Read answered 200 returns null or a non-empty string,     *)
(* never the empty string; and a Write whose payload is an empty or        *)
(* whitespace-only string is rejected with 400.                            *)
(***************************************************************************)
IsTrimmedText(s) == s # <<>> /\ s[1] # " " /\ s[Len(s)] # " "
IsBlank(v) == v.t = "str" /\ \A i \in 1..Len(v.s) : v.s[i] = " "
C21_Records ==
    \A x \in table : x.request_id # <<>> /\ IsTrimmedText(x.response)
C21_Read ==
    (LastIsGet /\ last.out.t = "resp" /\ last.out.statusCode = 200)
        => /\ last.out.body.t = "jsontext"
           /\ DOMAIN last.out.body.v.f = {"response"}
           /\ \/ last.out.body.v.f["response"] = JNull
              \/ /\ last.out.body.v.f["response"].t = "str"
                 /\ IsTrimmedText(last.out.body.v.f["response"].s)
C21_BlankWrite ==
    (LastIsPost /\ IsBlank(PyGet(LastBody, "response", JNull))
                /\ ~Truthy(PyGet(LastBody, "text", JNull)))
        => last.out.t = "resp" /\ last.out.statusCode = 400
C21_StoreInvariant == C21_Records /\ C21_Read /\ C21_BlankWrite

C21_Witness ==
    /\ LastIsPost
    /\ PyGet(LastBody, "request_id", JNull) = JStr(<<"r1">>)
    /\ PyGet(LastBody, "response", JNull) = JStr(<<" ">>)
    /\ last.out.statusCode = 400
    /\ \E x \in table : x.request_id = <<"r1">> /\ x.response = <<"a">>

====
